---- MODULE Spec2Model ----
(***************************************************************************)
(* Model of simdpp/detail/cast.inl: the compile-time cast dispatcher       *)
(* (cast_wrapper), the bit-copy primitive (cast_memcpy), mask unwrapping   *)
(* (cast_memcpy_unmask, base_mask_vector_type) and mask rebuilding         *)
(* (cast_memcpy_remask).                                                   *)
(*                                                                         *)
(* A type is a record [cls, n]: the class template and its lane count N.   *)
(* A value is a record [type, bytes]: its object representation.           *)
(* A cast is compiled (Call/CastBack: the wrapper is selected and every    *)
(* static assertion of the instantiated bodies is evaluated) and, when no  *)
(* assertion failed, run one call at a time (Unmask, Memcpy, CmpNeq,       *)
(* Return).                                                                *)
(***************************************************************************)
EXTENDS Integers, Sequences, FiniteSets

VARIABLES src, dstType, strategy, wrapper, errors, prog, ip, cur, calls,
          result, pc, prev, lookup

vars == <<src, dstType, strategy, wrapper, errors, prog, ip, cur, calls,
          result, pc, prev, lookup>>

----------------------------------------------------------------------------
(* Bounds *)

\* lane counts 1..MaxLanes are modelled for every class, with every mask pattern
MaxLanes == 2

\* lane counts 1..MaxLookupLanes are used for the type lookup on its own
MaxLookupLanes == 8

\* wider lane counts, modelled for the 32-bit classes with selected patterns
WideLaneCounts == {8}

----------------------------------------------------------------------------
(* Types (simdpp/types.h, outside this file) *)

MaskClasses == {"mask_int8", "mask_int16", "mask_int32", "mask_int64",
                "mask_float32", "mask_float64"}

VectorClasses == {"uint8", "uint16", "uint32", "uint64", "int32",
                  "float32", "float64"}

Classes == MaskClasses \cup VectorClasses

Ty(c, n) == [cls |-> c, n |-> n]

\* bytes of one lane of a class
ElemBytes(c) ==
    CASE c \in {"mask_int8", "uint8"} -> 1
      [] c \in {"mask_int16", "uint16"} -> 2
      [] c \in {"mask_int32", "uint32", "int32", "mask_float32", "float32"} -> 4
      [] c \in {"mask_int64", "uint64", "mask_float64", "float64"} -> 8

is_mask(T) == T.cls \in MaskClasses

\* sizeof(T): a mask is stored as the vector it aliases, N lanes of its element
sizeof(T) == ElemBytes(T.cls) * T.n

\* T::size_tag: the element size class of T ("masks with different element size")
size_tag(T) == ElemBytes(T.cls)

\* the type returned by T::unmask() for a mask type T
unmask_type(T) ==
    CASE T.cls = "mask_int8" -> Ty("uint8", T.n)
      [] T.cls = "mask_int16" -> Ty("uint16", T.n)
      [] T.cls = "mask_int32" -> Ty("uint32", T.n)
      [] T.cls = "mask_int64" -> Ty("uint64", T.n)
      [] T.cls = "mask_float32" -> Ty("float32", T.n)
      [] T.cls = "mask_float64" -> Ty("float64", T.n)

\* the mask type cmp_neq returns for two vectors of type T
cmp_type(T) ==
    CASE T.cls = "uint8" -> Ty("mask_int8", T.n)
      [] T.cls = "uint16" -> Ty("mask_int16", T.n)
      [] T.cls \in {"uint32", "int32"} -> Ty("mask_int32", T.n)
      [] T.cls = "uint64" -> Ty("mask_int64", T.n)
      [] T.cls = "float32" -> Ty("mask_float32", T.n)
      [] T.cls = "float64" -> Ty("mask_float64", T.n)

----------------------------------------------------------------------------
(* Values *)

NoValue == [type |-> Ty("none", 0), bytes |-> <<>>]

\* lane (1-based) holding byte j of a value of type T
LaneOf(T, j) == ((j - 1) \div ElemBytes(T.cls)) + 1

\* lane i of v has a bit set
LaneNonZero(v, i) ==
    \E j \in 1..Len(v.bytes) : LaneOf(v.type, j) = i /\ v.bytes[j] # 0

\* the true/false value of every lane of a mask value
MaskLanes(v) == [i \in 1..v.type.n |-> LaneNonZero(v, i)]

\* the mask or vector of type T with all bits set in the lanes of p, none elsewhere
FromLanes(T, p) ==
    [type |-> T,
     bytes |-> [j \in 1..sizeof(T) |-> IF p[LaneOf(T, j)] THEN 255 ELSE 0]]

\* t.unmask(): the vector a mask is stored as
unmask(t) == FromLanes(unmask_type(t.type), MaskLanes(t))

\* (RR) make_zero()
make_zero(RR) == [type |-> RR, bytes |-> [j \in 1..sizeof(RR) |-> 0]]

\* cmp_neq(a, b): the mask of the lanes in which a and b differ
cmp_neq(a, b) ==
    FromLanes(cmp_type(a.type),
              [i \in 1..a.type.n |->
                  \E j \in 1..Len(a.bytes) :
                      LaneOf(a.type, j) = i /\ a.bytes[j] # b.bytes[j]])

----------------------------------------------------------------------------
(* cast.inl *)

\* the lookup with the 64-bit entry copied from the 32-bit one
base_mask_vector_type_copied(T) ==
    CASE T.cls = "mask_int8" -> Ty("uint8", T.n)
      [] T.cls = "mask_int16" -> Ty("uint16", T.n)
      [] T.cls = "mask_int32" -> Ty("uint32", T.n)
      [] T.cls = "mask_int64" -> Ty("uint32", T.n)
      [] T.cls = "mask_float32" -> Ty("float32", T.n)
      [] T.cls = "mask_float64" -> Ty("float64", T.n)
      [] OTHER -> T

\* the lookup from a mask type to its base vector type, lines 24-30
base_mask_vector_type(T) ==
    CASE T.cls = "mask_int8" -> Ty("uint8", T.n)
      [] T.cls = "mask_int16" -> Ty("uint16", T.n)
      [] T.cls = "mask_int32" -> Ty("uint32", T.n)
      [] T.cls = "mask_int64" -> Ty("uint64", T.n)
      [] T.cls = "mask_float32" -> Ty("float32", T.n)
      [] T.cls = "mask_float64" -> Ty("float64", T.n)
      [] OTHER -> T

\* the size assertion letting a smaller destination through
cast_memcpy_assert_atmost(R, T) == sizeof(R) <= sizeof(T)

\* SIMDPP_STATIC_ASSERT(sizeof(R) == sizeof(T), "Size mismatch")
cast_memcpy_assert(R, T) == sizeof(R) = sizeof(T)

\* the copy one byte short
cast_memcpy_short(R, t) ==
    [type |-> R,
     bytes |-> [j \in 1..sizeof(R) |-> IF j < sizeof(R) THEN t.bytes[j] ELSE 0]]

\* the copy left out
cast_memcpy_omitted(R, t) ==
    [type |-> R, bytes |-> [j \in 1..sizeof(R) |-> 0]]

\* R r; ::memcpy(&r, &t, sizeof(R)); return r;
cast_memcpy(R, t) ==
    [type |-> R, bytes |-> [j \in 1..sizeof(R) |-> t.bytes[j]]]

\* the calls made by cast_memcpy<R>(t), in order
cast_memcpy_body(R) == << [op |-> "memcpy", to |-> R] >>

\* the calls made by cast_memcpy_unmask<R>(t), T the type of t, in order
cast_memcpy_unmask_body(R, T) ==
    << [op |-> "unmask", to |-> base_mask_vector_type(T)] >>
        \o cast_memcpy_body(R)

\* the remask calls with the comparison made before the copy
cast_memcpy_remask_body_early(R, T) ==
    << [op |-> "unmask", to |-> unmask_type(T)] >>
        \o << [op |-> "cmp_neq", to |-> cmp_type(unmask_type(T))] >>
        \o cast_memcpy_body(base_mask_vector_type(R))

\* the calls made by cast_memcpy_remask<R>(t), T the type of t, in order
cast_memcpy_remask_body(R, T) ==
    << [op |-> "unmask", to |-> unmask_type(T)] >>
        \o cast_memcpy_body(base_mask_vector_type(R))
        \o << [op |-> "cmp_neq", to |-> cmp_type(base_mask_vector_type(R))] >>

\* the size-tag assertion left out
size_tag_assert_omitted(R, T) == TRUE

\* SIMDPP_STATIC_ASSERT(R::size_tag == T::size_tag, ...)
size_tag_assert(R, T) == size_tag(R) = size_tag(T)

\* the dispatcher letting a non-mask source into a mask destination
cast_wrapper_permissive(IsRMask, IsLMask, MaskCastOverride) ==
    CASE IsRMask /\ IsLMask /\ MaskCastOverride = "CAST_MASK_MEMCPY" ->
            [assert |-> "size_tag", call |-> "cast_memcpy"]
      [] IsRMask /\ IsLMask /\ MaskCastOverride = "CAST_MASK_UNMASK" ->
            [assert |-> "size_tag", call |-> "cast_memcpy_unmask"]
      [] IsRMask /\ IsLMask /\ MaskCastOverride = "CAST_MASK_REMASK" ->
            [assert |-> "size_tag", call |-> "cast_memcpy_remask"]
      [] IsRMask /\ ~IsLMask ->
            [assert |-> "none", call |-> "cast_memcpy"]
      [] ~IsRMask /\ IsLMask ->
            [assert |-> "none", call |-> "cast_memcpy_unmask"]
      [] ~IsRMask /\ ~IsLMask ->
            [assert |-> "none", call |-> "cast_memcpy"]

\* the dispatcher with the unmask and remask specialisations exchanged
cast_wrapper_exchanged(IsRMask, IsLMask, MaskCastOverride) ==
    CASE IsRMask /\ IsLMask /\ MaskCastOverride = "CAST_MASK_MEMCPY" ->
            [assert |-> "size_tag", call |-> "cast_memcpy"]
      [] IsRMask /\ IsLMask /\ MaskCastOverride = "CAST_MASK_UNMASK" ->
            [assert |-> "size_tag", call |-> "cast_memcpy_remask"]
      [] IsRMask /\ IsLMask /\ MaskCastOverride = "CAST_MASK_REMASK" ->
            [assert |-> "size_tag", call |-> "cast_memcpy_unmask"]
      [] IsRMask /\ ~IsLMask ->
            [assert |-> "false", call |-> "none"]
      [] ~IsRMask /\ IsLMask ->
            [assert |-> "none", call |-> "cast_memcpy_unmask"]
      [] ~IsRMask /\ ~IsLMask ->
            [assert |-> "none", call |-> "cast_memcpy"]

\* the dispatcher asserting the size tag of a mask cast to a vector as well
cast_wrapper_tagged(IsRMask, IsLMask, MaskCastOverride) ==
    CASE IsRMask /\ IsLMask /\ MaskCastOverride = "CAST_MASK_MEMCPY" ->
            [assert |-> "size_tag", call |-> "cast_memcpy"]
      [] IsRMask /\ IsLMask /\ MaskCastOverride = "CAST_MASK_UNMASK" ->
            [assert |-> "size_tag", call |-> "cast_memcpy_unmask"]
      [] IsRMask /\ IsLMask /\ MaskCastOverride = "CAST_MASK_REMASK" ->
            [assert |-> "size_tag", call |-> "cast_memcpy_remask"]
      [] IsRMask /\ ~IsLMask ->
            [assert |-> "false", call |-> "none"]
      [] ~IsRMask /\ IsLMask ->
            [assert |-> "size_tag", call |-> "cast_memcpy_unmask"]
      [] ~IsRMask /\ ~IsLMask ->
            [assert |-> "none", call |-> "cast_memcpy"]

\* the specialisation of cast_wrapper selected by the three template arguments:
\* the static assertion of its run() and the function run() returns
cast_wrapper(IsRMask, IsLMask, MaskCastOverride) ==
    CASE IsRMask /\ IsLMask /\ MaskCastOverride = "CAST_MASK_MEMCPY" ->
            [assert |-> "size_tag", call |-> "cast_memcpy"]
      [] IsRMask /\ IsLMask /\ MaskCastOverride = "CAST_MASK_UNMASK" ->
            [assert |-> "size_tag", call |-> "cast_memcpy_unmask"]
      [] IsRMask /\ IsLMask /\ MaskCastOverride = "CAST_MASK_REMASK" ->
            [assert |-> "size_tag", call |-> "cast_memcpy_remask"]
      [] IsRMask /\ ~IsLMask ->
            [assert |-> "false", call |-> "none"]
      [] ~IsRMask /\ IsLMask ->
            [assert |-> "none", call |-> "cast_memcpy_unmask"]
      [] ~IsRMask /\ ~IsLMask ->
            [assert |-> "none", call |-> "cast_memcpy"]

MsgSize == "Size mismatch"
MsgTag == "Conversions between masks with different element size is not allowed"
MsgNonMask == "Conversion from non-mask type to a mask type is not allowed"

\* the calls made by the function a wrapper returns
Body(w, R, T) ==
    CASE w.call = "cast_memcpy" -> cast_memcpy_body(R)
      [] w.call = "cast_memcpy_unmask" -> cast_memcpy_unmask_body(R, T)
      [] w.call = "cast_memcpy_remask" -> cast_memcpy_remask_body(R, T)
      [] w.call = "none" -> << >>

\* the failed static assertion of a wrapper's run<R, T>
WrapperErrors(w, R, T) ==
    CASE w.assert = "size_tag" -> IF size_tag_assert(R, T) THEN {} ELSE {MsgTag}
      [] w.assert = "false" -> {MsgNonMask}
      [] w.assert = "none" -> {}

\* the failed static assertions of the calls ops applied to a value of type T
RECURSIVE BodyErrors(_, _)
BodyErrors(ops, T) ==
    IF ops = << >> THEN {}
    ELSE LET o == Head(ops)
         IN  (IF o.op = "memcpy" /\ ~cast_memcpy_assert(o.to, T)
                 THEN {MsgSize} ELSE {})
             \cup BodyErrors(Tail(ops), o.to)

----------------------------------------------------------------------------
(* Inputs *)

Strategies == {"CAST_MASK_MEMCPY", "CAST_MASK_UNMASK", "CAST_MASK_REMASK"}

WideClasses == {"mask_int32", "mask_float32", "uint32", "float32"}

Types == {Ty(c, n) : c \in Classes, n \in 1..MaxLanes}
            \cup {Ty(c, n) : c \in WideClasses, n \in WideLaneCounts}

LookupTypes == {Ty(c, n) : c \in Classes, n \in 1..MaxLookupLanes}

ByteVals == <<0, 255, 1, 128>>

VectorInputs(T) ==
    {[type |-> T,
      bytes |-> [j \in 1..sizeof(T) |-> ByteVals[((s + j * k) % 4) + 1]]] :
        s \in 0..3, k \in 0..1}

Patterns(n) ==
    IF n <= MaxLanes THEN [1..n -> BOOLEAN]
    ELSE {[i \in 1..n |-> TRUE], [i \in 1..n |-> FALSE],
          [i \in 1..n |-> i % 2 = 1], [i \in 1..n |-> i % 2 = 0],
          [i \in 1..n |-> i \in {1, 3, 4, 7}]}

MaskInputs(T) == {FromLanes(T, p) : p \in Patterns(T.n)}

Inputs == UNION {IF is_mask(T) THEN MaskInputs(T) ELSE VectorInputs(T) :
                    T \in Types}

NoCast == [src |-> NoValue, dstType |-> Ty("none", 0), strategy |-> "none",
           result |-> NoValue]

NoWrapper == [assert |-> "none", call |-> "none"]

NoLookup == [T |-> Ty("none", 0), type |-> Ty("none", 0), done |-> FALSE]

----------------------------------------------------------------------------
(* The cast: Spec *)

Init ==
    /\ src \in Inputs
    /\ dstType = Ty("none", 0)
    /\ strategy = "none"
    /\ wrapper = NoWrapper
    /\ errors = {}
    /\ prog = << >>
    /\ ip = 1
    /\ cur = NoValue
    /\ calls = << >>
    /\ result = NoValue
    /\ pc = "idle"
    /\ prev = NoCast
    /\ lookup = NoLookup

\* instantiate cast_wrapper<is_mask<R>, is_mask<T>, s>::run<R>(t)
Compile(R, t, s) ==
    LET w == cast_wrapper(is_mask(R), is_mask(t.type), s)
        b == Body(w, R, t.type)
        e == WrapperErrors(w, R, t.type) \cup BodyErrors(b, t.type)
    IN  /\ src' = t
        /\ dstType' = R
        /\ strategy' = s
        /\ wrapper' = w
        /\ errors' = e
        /\ prog' = IF e = {} THEN b ELSE << >>
        /\ ip' = 1
        /\ cur' = IF e = {} THEN t ELSE NoValue
        /\ calls' = << >>
        /\ result' = NoValue
        /\ pc' = IF e = {} THEN "run" ELSE "rejected"

\* a cast of the input value to R is written
Call ==
    /\ pc = "idle"
    /\ \E R \in Types, s \in Strategies : Compile(R, src, s)
    /\ UNCHANGED <<prev, lookup>>

\* the result of the first cast is cast back to the type it came from
CastBack ==
    /\ pc = "done"
    /\ prev = NoCast
    /\ prev' = [src |-> src, dstType |-> dstType, strategy |-> strategy,
                result |-> result]
    /\ \E s \in Strategies : Compile(src.type, result, s)
    /\ UNCHANGED lookup

Running(o) == pc = "run" /\ ip <= Len(prog) /\ prog[ip].op = o

Step(v, o) ==
    /\ cur' = v
    /\ calls' = Append(calls, o)
    /\ ip' = ip + 1
    /\ UNCHANGED <<src, dstType, strategy, wrapper, errors, prog, result, pc,
                   prev, lookup>>

\* TT tt = t.unmask();
Unmask ==
    /\ Running("unmask")
    /\ Step([unmask(cur) EXCEPT !.type = prog[ip].to], "unmask")

\* cast_memcpy<R>(t)
Memcpy ==
    /\ Running("memcpy")
    /\ Step(cast_memcpy(prog[ip].to, cur), "memcpy")

\* the comparison of the vector with itself
CmpNeq_self ==
    /\ Running("cmp_neq")
    /\ Step(cmp_neq(cur, cur), "cmp_neq")

\* return cmp_neq(rr, (RR) make_zero());
CmpNeq ==
    /\ Running("cmp_neq")
    /\ Step(cmp_neq(cur, make_zero(cur.type)), "cmp_neq")

\* the value is returned as an R
Return ==
    /\ pc = "run"
    /\ ip > Len(prog)
    /\ result' = [cur EXCEPT !.type = dstType]
    /\ pc' = "done"
    /\ UNCHANGED <<src, dstType, strategy, wrapper, errors, prog, ip, cur,
                   calls, prev, lookup>>

Next == Call \/ CastBack \/ Unmask \/ Memcpy \/ CmpNeq \/ Return

Spec == Init /\ [][Next]_vars

----------------------------------------------------------------------------
(* The type lookup on its own: SpecLookup *)

InitLookup ==
    /\ src = NoValue
    /\ dstType = Ty("none", 0)
    /\ strategy = "none"
    /\ wrapper = NoWrapper
    /\ errors = {}
    /\ prog = << >>
    /\ ip = 1
    /\ cur = NoValue
    /\ calls = << >>
    /\ result = NoValue
    /\ pc = "lookup"
    /\ prev = NoCast
    /\ lookup \in {[T |-> T, type |-> Ty("none", 0), done |-> FALSE] :
                      T \in LookupTypes}

\* typename base_mask_vector_type<T>::type
Lookup ==
    /\ pc = "lookup"
    /\ ~lookup.done
    /\ lookup' = [lookup EXCEPT !.type = base_mask_vector_type(lookup.T),
                                !.done = TRUE]
    /\ UNCHANGED <<src, dstType, strategy, wrapper, errors, prog, ip, cur,
                   calls, result, pc, prev>>

NextLookup == Lookup

SpecLookup == InitLookup /\ [][NextLookup]_vars

----------------------------------------------------------------------------
(* Properties *)

\* the base vector class of the same element kind as a mask class
BaseClass(c) ==
    CASE c = "mask_int8" -> "uint8"
      [] c = "mask_int16" -> "uint16"
      [] c = "mask_int32" -> "uint32"
      [] c = "mask_int64" -> "uint64"
      [] c = "mask_float32" -> "float32"
      [] c = "mask_float64" -> "float64"

Compiled == pc \in {"run", "done", "rejected"}

Accepted == pc \in {"run", "done"}

BothMasks == is_mask(dstType) /\ is_mask(src.type)

\* C1: a cast from a non-mask type to a mask type is rejected with the
\* non-mask message alone and yields no value, whatever the strategy, the
\* element kinds, the size tags and the byte sizes.
C1_StaticRejection ==
    (Compiled /\ ~is_mask(src.type) /\ is_mask(dstType)) =>
        /\ pc = "rejected"
        /\ errors = {MsgNonMask}
        /\ result = NoValue
        /\ cur = NoValue
        /\ prog = << >>
        /\ calls = << >>

C1_Witness ==
    /\ pc = "rejected"
    /\ ~is_mask(src.type)
    /\ is_mask(dstType)
    /\ sizeof(dstType) = sizeof(src.type)
    /\ size_tag(dstType) = size_tag(src.type)
    /\ strategy = "CAST_MASK_REMASK"
    /\ errors = {MsgNonMask}

\* the behaviour the claim names for a triple of flags
ExpectedBehaviour(rmask, lmask, s) ==
    IF rmask /\ lmask
    THEN (CASE s = "CAST_MASK_MEMCPY" -> "bit-copy"
            [] s = "CAST_MASK_UNMASK" -> "unmask-then-bit-copy"
            [] s = "CAST_MASK_REMASK" -> "bit-copy-then-remask")
    ELSE IF rmask THEN "reject"
    ELSE IF lmask THEN "unmask-then-bit-copy"
    ELSE "bit-copy"

\* the behaviour a selected wrapper has
BehaviourOf(w) ==
    {b \in {"reject", "bit-copy", "unmask-then-bit-copy", "bit-copy-then-remask"} :
        \/ b = "reject" /\ w.assert = "false" /\ w.call = "none"
        \/ b = "bit-copy" /\ w.assert # "false" /\ w.call = "cast_memcpy"
        \/ b = "unmask-then-bit-copy" /\ w.assert # "false"
              /\ w.call = "cast_memcpy_unmask"
        \/ b = "bit-copy-then-remask" /\ w.assert # "false"
              /\ w.call = "cast_memcpy_remask"}

\* C2: the dispatcher resolves every (destination-is-mask, source-is-mask,
\* strategy) triple to exactly the one behaviour of the table, and an
\* accepted cast makes the calls of that behaviour.
C2_DispatcherSelection ==
    Compiled =>
        LET b == ExpectedBehaviour(is_mask(dstType), is_mask(src.type), strategy)
        IN  /\ BehaviourOf(wrapper) = {b}
            /\ b = "reject" => pc = "rejected"
            /\ pc = "done" =>
                  /\ b = "bit-copy" => calls = <<"memcpy">>
                  /\ b = "unmask-then-bit-copy" => calls = <<"unmask", "memcpy">>
                  /\ b = "bit-copy-then-remask" =>
                        SubSeq(calls, Len(calls) - 1, Len(calls))
                            = <<"memcpy", "cmp_neq">>

C2_Witness ==
    /\ pc = "done"
    /\ BothMasks
    /\ dstType # src.type
    /\ strategy = "CAST_MASK_REMASK"
    /\ wrapper.call = "cast_memcpy_remask"

\* C3: for non-mask types A and B of equal size, casting a value of A to B is
\* accepted and gives a B with the bytes of the A, and casting that back to A
\* is accepted and gives the original bytes.
C3_RoundTripBitIdentity ==
    /\ (Compiled /\ ~is_mask(src.type) /\ ~is_mask(dstType)
            /\ sizeof(src.type) = sizeof(dstType)) =>
          /\ Accepted
          /\ pc = "done" => result = [type |-> dstType, bytes |-> src.bytes]
    /\ (prev # NoCast /\ ~is_mask(prev.src.type) /\ ~is_mask(prev.dstType)) =>
          /\ prev.result = [type |-> prev.dstType, bytes |-> prev.src.bytes]
          /\ Accepted
          /\ pc = "done" => result = prev.src

C3_Witness ==
    /\ pc = "done"
    /\ prev # NoCast
    /\ ~is_mask(prev.src.type)
    /\ ~is_mask(prev.dstType)
    /\ prev.src.type.cls # prev.dstType.cls
    /\ prev.src.type.n # prev.dstType.n
    /\ \E i, j \in 1..Len(prev.src.bytes) : prev.src.bytes[i] # prev.src.bytes[j]
    /\ result = prev.src

\* C4 as stated: a mask M cast to its base vector, and that vector cast back
\* to M with the remask strategy, gives a mask with the lanes of the original.
C4_Original ==
    (prev # NoCast /\ is_mask(prev.src.type)
        /\ prev.dstType = unmask_type(prev.src.type)
        /\ strategy = "CAST_MASK_REMASK") =>
            /\ Accepted
            /\ pc = "done" =>
                  result.type = prev.src.type
                      /\ MaskLanes(result) = MaskLanes(prev.src)

\* C4: a mask type M cast to M with the remask strategy is accepted, goes
\* through the base vector of M and gives a mask with the same true/false
\* value in every lane; the base vector of M cast back to M as a cast of its
\* own is rejected under every strategy.
C4_MaskRoundTrip ==
    /\ (Compiled /\ is_mask(src.type) /\ dstType = src.type
            /\ strategy = "CAST_MASK_REMASK") =>
          /\ Accepted
          /\ calls # << >> =>
                cur.bytes = [j \in 1..sizeof(src.type) |->
                    IF MaskLanes(src)[LaneOf(src.type, j)] THEN 255 ELSE 0]
          /\ calls \in {<<"unmask">>, <<"unmask", "memcpy">>} =>
                cur.type = unmask_type(src.type)
          /\ pc = "done" =>
                result.type = src.type /\ MaskLanes(result) = MaskLanes(src)
    /\ (prev # NoCast /\ is_mask(prev.src.type)
            /\ prev.dstType = unmask_type(prev.src.type)) =>
          /\ \A i \in 1..prev.src.type.n :
                MaskLanes(prev.src)[i] <=> LaneNonZero(prev.result, i)
          /\ pc = "rejected"
          /\ errors = {MsgNonMask}

C4_Witness ==
    /\ pc = "done"
    /\ is_mask(src.type)
    /\ dstType = src.type
    /\ strategy = "CAST_MASK_REMASK"
    /\ src.type.n = 8
    /\ MaskLanes(src) = [i \in 1..8 |-> i % 2 = 1]
    /\ MaskLanes(result) = MaskLanes(src)

\* C5 as stated: two mask types with different size tags are rejected with
\* the size-tag message under each strategy, and two mask types with equal
\* size tags are accepted under each strategy and give a value of the
\* destination type.
C5_Original ==
    (Compiled /\ BothMasks) =>
        /\ size_tag(dstType) # size_tag(src.type) =>
              pc = "rejected" /\ MsgTag \in errors
        /\ size_tag(dstType) = size_tag(src.type) =>
              /\ Accepted
              /\ pc = "done" => result.type = dstType

\* C5: two mask types with different size tags are rejected with the
\* size-tag message under each strategy; two mask types with equal size tags
\* are accepted under each strategy when their byte sizes are equal, and
\* give a value of the destination type, and are rejected with "Size
\* mismatch" alone when their byte sizes differ.
C5_SizeTagEnforcement ==
    (Compiled /\ BothMasks) =>
        /\ size_tag(dstType) # size_tag(src.type) =>
              pc = "rejected" /\ MsgTag \in errors /\ result = NoValue
        /\ (size_tag(dstType) = size_tag(src.type)
                /\ sizeof(dstType) = sizeof(src.type)) =>
              /\ Accepted
              /\ pc = "done" => result.type = dstType
        /\ (size_tag(dstType) = size_tag(src.type)
                /\ sizeof(dstType) # sizeof(src.type)) =>
              pc = "rejected" /\ errors = {MsgSize} /\ result = NoValue

C5_Witness ==
    /\ pc = "rejected"
    /\ BothMasks
    /\ size_tag(dstType) # size_tag(src.type)
    /\ sizeof(dstType) = sizeof(src.type)
    /\ strategy = "CAST_MASK_UNMASK"
    /\ errors = {MsgTag}

\* C6: on the three run paths a cast whose destination and source differ in
\* byte size is rejected with "Size mismatch" and yields no value, a cast
\* that runs has equal byte sizes, and every copy is between storages of the
\* same size.
C6_SizePrecondition ==
    (Compiled /\ wrapper.call # "none") =>
        /\ sizeof(dstType) # sizeof(src.type) =>
              /\ pc = "rejected"
              /\ MsgSize \in errors
              /\ result = NoValue
              /\ cur = NoValue
        /\ Accepted => sizeof(dstType) = sizeof(src.type)
        /\ Running("memcpy") => sizeof(prog[ip].to) = Len(cur.bytes)
        /\ pc = "done" => Len(result.bytes) = Len(src.bytes)

C6_Witness ==
    /\ pc = "rejected"
    /\ wrapper.call = "cast_memcpy_remask"
    /\ size_tag(dstType) = size_tag(src.type)
    /\ sizeof(dstType) # sizeof(src.type)
    /\ errors = {MsgSize}

\* the remask cast of the concrete scenario
Scenario ==
    /\ src.type = Ty("mask_float32", 8)
    /\ dstType = Ty("mask_int32", 8)
    /\ strategy = "CAST_MASK_REMASK"

\* C7: in a mask-to-mask cast with the remask strategy the comparison is
\* applied to a vector of the destination's base vector type and lane i of
\* the mask it gives is true exactly when lane i of that vector is non-zero;
\* the 8-lane float mask remask-cast to the 8-lane 32-bit integer mask keeps
\* its pattern.
C7_RemaskResult ==
    /\ [][CmpNeq =>
            /\ wrapper.call = "cast_memcpy_remask"
            /\ cur.type = base_mask_vector_type(dstType)
            /\ cur.bytes = src.bytes
            /\ cur'.type.n = cur.type.n
            /\ \A i \in 1..cur.type.n :
                  MaskLanes(cur')[i] <=> LaneNonZero(cur, i)]_vars
    /\ [][(Return /\ wrapper.call = "cast_memcpy_remask") =>
            /\ calls[Len(calls)] = "cmp_neq"
            /\ result' = [cur EXCEPT !.type = dstType]]_vars
    /\ []((pc = "done" /\ Scenario) =>
            result.type = dstType /\ MaskLanes(result) = MaskLanes(src))

C7_Witness ==
    /\ pc = "done"
    /\ Scenario
    /\ MaskLanes(src) = <<TRUE, FALSE, TRUE, TRUE, FALSE, FALSE, TRUE, FALSE>>
    /\ MaskLanes(result) = <<TRUE, FALSE, TRUE, TRUE, FALSE, FALSE, TRUE, FALSE>>

\* C8: a cast from a mask type to a non-mask type is accepted exactly when
\* the byte sizes are equal, whatever the size tags and the strategy; it
\* first takes the source to its base vector, of the base vector type of the
\* source's element kind, and returns a destination with the bytes of that
\* vector.
C8_MaskToVector ==
    (Compiled /\ is_mask(src.type) /\ ~is_mask(dstType)) =>
        /\ Accepted <=> sizeof(dstType) = sizeof(src.type)
        /\ pc = "rejected" => errors = {MsgSize}
        /\ calls # << >> =>
              /\ calls[1] = "unmask"
              /\ cur.bytes = [j \in 1..sizeof(src.type) |->
                    IF MaskLanes(src)[LaneOf(src.type, j)] THEN 255 ELSE 0]
        /\ calls = <<"unmask">> =>
              cur.type = Ty(BaseClass(src.type.cls), src.type.n)
        /\ pc = "done" =>
              /\ calls = <<"unmask", "memcpy">>
              /\ result = [type |-> dstType, bytes |-> cur.bytes]

C8_Witness ==
    /\ pc = "done"
    /\ is_mask(src.type)
    /\ ~is_mask(dstType)
    /\ size_tag(dstType) # size_tag(src.type)
    /\ strategy = "CAST_MASK_REMASK"
    /\ \E i, j \in 1..src.type.n : MaskLanes(src)[i] /\ ~MaskLanes(src)[j]

\* the positions of a call in the calls of a cast
At(o) == {i \in 1..Len(calls) : calls[i] = o}

\* C9 as stated: an accepted cast copies exactly once, unwraps only before the
\* copy, rebuilds only after the copy, and does one of the two or neither.
C9_Original ==
    pc = "done" =>
        /\ Cardinality(At("memcpy")) = 1
        /\ \A u \in At("unmask"), m \in At("memcpy") : u < m
        /\ \A c \in At("cmp_neq"), m \in At("memcpy") : m < c
        /\ At("unmask") = {} \/ At("cmp_neq") = {}

\* C9: an accepted cast copies exactly once, unwraps only before the copy
\* and rebuilds only after the copy; the bit-copy path does neither, the
\* unmask path unwraps, and the remask path both unwraps the source before
\* the copy and rebuilds the mask after it.
C9_StepOrdering ==
    pc = "done" =>
        /\ Cardinality(At("memcpy")) = 1
        /\ \A u \in At("unmask"), m \in At("memcpy") : u < m
        /\ \A c \in At("cmp_neq"), m \in At("memcpy") : m < c
        /\ Cardinality(At("unmask")) <= 1
        /\ Cardinality(At("cmp_neq")) <= 1
        /\ wrapper.call = "cast_memcpy" =>
              At("unmask") = {} /\ At("cmp_neq") = {}
        /\ wrapper.call = "cast_memcpy_unmask" =>
              At("unmask") # {} /\ At("cmp_neq") = {}
        /\ wrapper.call = "cast_memcpy_remask" =>
              At("unmask") # {} /\ At("cmp_neq") # {}

C9_Witness ==
    /\ pc = "done"
    /\ wrapper.call = "cast_memcpy_remask"
    /\ calls = <<"unmask", "memcpy", "cmp_neq">>

MappedMask ==
    /\ lookup.T.cls \in MaskClasses
    /\ lookup.type = Ty(BaseClass(lookup.T.cls), lookup.T.n)
    /\ ElemBytes(lookup.type.cls) = ElemBytes(lookup.T.cls)

\* C10 as stated: the lookup gives each of the six mask kinds its base vector
\* type and no type at all to any other type.
C10_Original ==
    lookup.done =>
        \/ MappedMask
        \/ lookup.T.cls \notin MaskClasses /\ lookup.type = Ty("none", 0)

\* C10: the lookup gives each of the six mask kinds the base vector type of
\* the same lane count and element kind, and gives any other type that type
\* itself.
C10_ExhaustiveMapping ==
    lookup.done =>
        \/ MappedMask
        \/ lookup.T.cls \notin MaskClasses /\ lookup.type = lookup.T

C10_Witness ==
    /\ lookup.done
    /\ lookup.T = Ty("mask_float64", MaxLookupLanes)
    /\ lookup.type = Ty("float64", MaxLookupLanes)

====
